---- MODULE Spec2Model ----
(***************************************************************************)
(* BRIDGE hub (src/bridge_hub): the in-memory Behavioral Risk Graph, the   *)
(* temporal correlator, the decay engine, the escalation engine, the       *)
(* advisory log, the /ingest handler, the runtime config update and the    *)
(* background pruner, as they run on one asyncio event loop.               *)
(*                                                                         *)
(* Time is in seconds.  The clock and the client timestamps move on a grid *)
(* of TimeStep seconds; one run of a handler between two suspension points *)
(* takes no time on that grid.  Timestamps are naive UTC datetimes.        *)
(* Confidences are integers in units of 1/10000, decay scores in tenths.   *)
(***************************************************************************)
EXTENDS Integers, Sequences, FiniteSets, TLC

\* ------------------------------------------------------------------ bounds
MaxTick == 4          \* the clock runs over 0 .. MaxTick * TimeStep
TimeStep == 150       \* seconds between two grid points
MaxIngest == 3        \* observations added in one run
NumHandlers == 2      \* ingest handler tasks the event loop may hold
MaxSkew == 1          \* grid points a client timestamp may lie behind the hub clock
ScenarioIngests == 4  \* observations added in one run of the scenario
PrunerRunIngests == 1 \* observations added in one run that follows the pruner
MaxEntityCount == 5   \* largest entity_count of a correlation handed to the escalator
MaxSamples == 4       \* longest latency deque of which every content is tried
MaxRuns == 3          \* ingest runs the metrics tracker records in one run
MaxReadGap == 2       \* seconds between the two clock reads of one detect_correlation
MaxSends == 4         \* send_fingerprint calls of one client in one run
MaxRetries == 2       \* largest max_retries a client is built with
NumFlushTasks == 2    \* flush tasks of one client the event loop may hold
MaxSpins == 2         \* iterations of the pruner loop followed while it keeps the event loop

\* ------------------------------------------------- configuration defaults
DefaultEntityThreshold == 2
DefaultTimeWindowSeconds == 300
DefaultCriticalThreshold == 4
DefaultHighThreshold == 3
DefaultMediumThreshold == 2
\* BehavioralRiskGraph's own max_age_seconds default; the hub passes
\* MAX_GRAPH_AGE_SECONDS from the environment (config.py:30, main.py:81-83)
MaxGraphAgeSeconds == 300
DefaultPruneIntervalSeconds == 300
DefaultMaxAdvisories == 1000

\* ------------------------------------------------------------ decay engine
FreshMaxSeconds == 120
RecentMaxSeconds == 300
AgingMaxSeconds == 600
FreshDecay == 10
RecentDecay == 8
AgingDecay == 5
StaleDecay == 2
ActiveMin == 7000
CoolingMin == 4000

ReactivationDecay == 10

\* -------------------------------------------------------------- correlator
BaseLow == 5000
BaseMedium == 7500
BaseHigh == 9000
HighSpanSeconds == 180
MediumSpanSeconds == 300

\* -------------------------------------------------- ingest handler defaults
UncorrelatedBase == 5000
UncorrelatedDecay == 10
UncorrelatedEffective == 5000

\* ---------------------------------------------------------- metrics tracker
LatencyMaxLen == 10000
FraudScoreMaxLen == 1000
MetricsWindowSeconds == 3600
ReportedPercentile == 95
\* deque() without a maxlen argument: maxlen is None
NoMaxLen == -1
\* a prune_interval_seconds that is no number (a JSON string, null or list)
UnusableInterval == -1

\* ------------------------------------------------------------------ inputs
\* entity_id and fingerprint are unvalidated strings (models.py:16-17): one
\* of the fingerprints sent is the string that is also entity_b's id.
EntityIds == {"entity_a", "entity_b"}
Fingerprints == {"fp_1", "entity_b"}
Severities == {"HIGH"}
\* the severity levels RiskFingerprint documents (models.py:18), and a string
\* that is none of them
ValidSeverities == {"LOW", "MEDIUM", "HIGH", "CRITICAL"}
UnknownSeverities == {"SEVERE"}
\* the three entities of the multi-entity scenarios
ScenarioEntities == {"entity_a", "entity_b", "entity_c"}
\* the scenario's fingerprint, and its instants: T0, T0 + 90 s, T0 + 170 s and
\* the moment the observation of T0 + 170 s is 430 s old
ScenarioFingerprints == {"fp_1"}
ScenarioTimes == {0, 90, 170, 600}
NodeIds == EntityIds \cup ScenarioEntities \cup Fingerprints
Times == {k * TimeStep : k \in 0..MaxTick}
Handlers == 1..NumHandlers
\* the timestamps a client may send at hub time t: the time of the observation,
\* which reaches the hub at once or up to MaxSkew grid points later
ClientTimes(t) ==
  {ts \in Times : ts >= t - MaxSkew * TimeStep /\ ts <= t}

\* windows a query may pass to get_recent_observations: the correlator's
\* window, the graph's own default, and get_pattern_history's 24 hours
QueryWindows == {TimeStep, DefaultTimeWindowSeconds, 86400}

\* dicts posted to /admin/config/update; the last one puts medium_threshold
\* above high_threshold
ConfigUpdates ==
  { [k \in {"max_advisories"} |-> 1],
    [k \in {"entity_threshold", "medium_threshold"} |-> 1],
    [k \in {"medium_threshold"} |-> DefaultHighThreshold + 1] }

VARIABLES
  now,                \* datetime.utcnow()
  nodes,              \* brg.graph nodes: node id -> attributes
  edges,              \* brg.graph edges: set of keyed multi-edges
  observation_count,  \* brg._observation_count
  advisories,         \* the global advisory list
  config,             \* the global config dict
  correlator,         \* TemporalCorrelator fields
  escalator,          \* EscalationEngine fields
  handlers,           \* frame of each ingest handler task
  pruner,             \* frame of prune_graph_periodically
  running,            \* the task the event loop is running, 0 = none
  appended,           \* advisories appended so far (history)
  pruned_at,          \* time of the last prune if no add followed it, else -1
  metrics_tracker,    \* MetricsTracker fields
  probe               \* the object a component is called on directly, and
                      \* what the call returned

vars == <<now, nodes, edges, observation_count, advisories, config, correlator,
          escalator, handlers, pruner, running, appended, pruned_at,
          metrics_tracker, probe>>

\* the variables of the hub proper
hub_vars == <<nodes, edges, observation_count, advisories, config, correlator,
              escalator, handlers, pruner, running, appended, pruned_at>>

\* ------------------------------------------------------------------ helpers
Min(S) == CHOOSE m \in S : \A o \in S : m <= o
Max(S) == CHOOSE m \in S : \A o \in S : m >= o
Has(d, k) == k \in DOMAIN d

NoNode ==
  [node_type |-> "absent", first_seen |-> -1, observation_count |-> -1,
   base_confidence |-> -1, decay_score |-> -1, effective_confidence |-> -1,
   last_seen_timestamp |-> -1, pattern_status |-> "NONE", last_seen |-> -1]

HasNode(n) == nodes[n].node_type # "absent"

\* graph.add_node(entity_id, node_type="entity")
EntityNode == [NoNode EXCEPT !.node_type = "entity"]

InEdges(E, f) == {e \in E : e.dst = f}
OutEdges(E, u) == {e \in E : e.src = u}
\* MultiDiGraph.degree: in-degree plus out-degree, a self-loop counts twice
Degree(E, n) == Cardinality(InEdges(E, n)) + Cardinality(OutEdges(E, n))

\* MultiDiGraph.new_edge_key: len(keydict), raised while the key is in use
RECURSIVE FreeKey(_, _)
FreeKey(used, k) == IF k \in used THEN FreeKey(used, k + 1) ELSE k
NewEdgeKey(E, u, v) ==
  LET used == {e.key : e \in {d \in E : d.src = u /\ d.dst = v}}
  IN  FreeKey(used, Cardinality(used))

\* --------------------------------------------------------------- decay engine
\* variant: an age on a bound belongs to the staler window
CalculateDecayScoreStrict(last_seen_timestamp, current_timestamp) ==
  LET delta_seconds == current_timestamp - last_seen_timestamp
  IN  IF delta_seconds < FreshMaxSeconds THEN FreshDecay
      ELSE IF delta_seconds < RecentMaxSeconds THEN RecentDecay
      ELSE IF delta_seconds < AgingMaxSeconds THEN AgingDecay
      ELSE StaleDecay

\* variant: an age past the aging window finds no window and the pattern
\* keeps its full strength
CalculateDecayScoreNoStale(last_seen_timestamp, current_timestamp) ==
  LET delta_seconds == current_timestamp - last_seen_timestamp
  IN  IF delta_seconds <= FreshMaxSeconds THEN FreshDecay
      ELSE IF delta_seconds <= RecentMaxSeconds THEN RecentDecay
      ELSE IF delta_seconds <= AgingMaxSeconds THEN AgingDecay
      ELSE FreshDecay

\* the first window, fresh to stale, with delta_seconds <= max_seconds
CalculateDecayScore(last_seen_timestamp, current_timestamp) ==
  LET delta_seconds == current_timestamp - last_seen_timestamp
  IN  IF delta_seconds <= FreshMaxSeconds THEN FreshDecay
      ELSE IF delta_seconds <= RecentMaxSeconds THEN RecentDecay
      ELSE IF delta_seconds <= AgingMaxSeconds THEN AgingDecay
      ELSE StaleDecay

\* round(min(1.0, max(0.0, base * decay)), 4), in units of 1/10000
CalculateEffectiveConfidence(base_confidence, decay_score) ==
  LET p == base_confidence * decay_score
      r == IF p % 10 > 5 \/ (p % 10 = 5 /\ (p \div 10) % 2 = 1)
           THEN p \div 10 + 1 ELSE p \div 10
  IN  IF r > 10000 THEN 10000 ELSE IF r < 0 THEN 0 ELSE r

DeterminePatternStatus(effective_confidence) ==
  IF effective_confidence >= ActiveMin THEN "ACTIVE"
  ELSE IF effective_confidence >= CoolingMin THEN "COOLING"
  ELSE "DORMANT"

ApplyDecay(base_confidence, last_seen_timestamp, current_timestamp) ==
  LET decay == CalculateDecayScore(last_seen_timestamp, current_timestamp)
      eff == CalculateEffectiveConfidence(base_confidence, decay)
  IN  [base_confidence |-> base_confidence,
       decay_score |-> decay,
       effective_confidence |-> eff,
       status |-> DeterminePatternStatus(eff),
       time_since_last_seen_seconds |-> current_timestamp - last_seen_timestamp]

\* variant: a reactivation that keeps the decay of the recent window
ReactivatedDecayKept == RecentDecay

\* decay_engine.py:218  decay_score = 1.0, the full reset
ReactivatedDecay == ReactivationDecay

\* reactivate_pattern: the state of a pattern seen again at current_timestamp
ReactivatePattern(new_base_confidence, current_timestamp) ==
  LET eff == CalculateEffectiveConfidence(new_base_confidence, ReactivatedDecay)
  IN  [base_confidence |-> new_base_confidence,
       decay_score |-> ReactivatedDecay,
       effective_confidence |-> eff,
       status |-> DeterminePatternStatus(eff),
       last_seen_timestamp |-> current_timestamp,
       current_timestamp |-> current_timestamp,
       time_since_last_seen_seconds |-> 0,
       reactivated |-> TRUE]

\* ------------------------------------------------------------------- graph
\* get_recent_observations: the edges into fingerprint newer than the cutoff.
\* The code returns them as a list sorted by timestamp; the model keeps the
\* set, and takes the list's first and last timestamps as its Min and Max.
GetRecentObservations(N, E, fingerprint, time_window, t) ==
  LET cutoff_time == t - time_window
  IN  IF N[fingerprint].node_type # "absent"
      THEN {e \in InEdges(E, fingerprint) : e.ts > cutoff_time}
      ELSE {}

\* variant: every observation counts as an entity of its own
CountObservations(observations) == Cardinality(observations)

\* len(set(obs['entity_id'] for obs in observations))
CountUniqueEntities(observations) == Cardinality({o.src : o \in observations})

GetUniqueEntities(N, E, fingerprint, time_window, t) ==
  CountUniqueEntities(GetRecentObservations(N, E, fingerprint, time_window, t))

\* ---------------------------------------------------------------- correlator
NoCorrelation == [detected |-> FALSE]

CalculateConfidence(entity_count, time_span) ==
  IF entity_count >= 3 /\ time_span < HighSpanSeconds THEN "HIGH"
  ELSE IF entity_count >= 2 /\ time_span < MediumSpanSeconds THEN "MEDIUM"
  ELSE "LOW"

ConfidenceMap(c) ==
  IF c = "HIGH" THEN BaseHigh ELSE IF c = "MEDIUM" THEN BaseMedium ELSE BaseLow

\* detect_correlation reads the clock twice: get_recent_observations takes its
\* cutoff from datetime.utcnow() at t, and the decay is applied with
\* current_timestamp = datetime.utcnow() at t_decay (temporal_correlator.py:105)
DetectCorrelationAt(cor, N, E, fingerprint, t, t_decay) ==
  LET observations == GetRecentObservations(N, E, fingerprint, cor.time_window_seconds, t)
      entity_count == CountUniqueEntities(observations)
  IN  IF observations = {} THEN NoCorrelation
      ELSE IF entity_count < cor.entity_threshold THEN NoCorrelation
      ELSE
        LET stamps == {o.ts : o \in observations}
            time_span == IF Cardinality(observations) > 1
                         THEN Max(stamps) - Min(stamps) ELSE 0
            confidence_str == CalculateConfidence(entity_count, time_span)
            base == ConfidenceMap(confidence_str)
            last_seen == Max(stamps)
            decay_result == ApplyDecay(base, last_seen, t_decay)
        IN  [detected |-> TRUE,
             fingerprint |-> fingerprint,
             entity_count |-> entity_count,
             time_span_seconds |-> time_span,
             confidence |-> confidence_str,
             base_confidence |-> base,
             decay_score |-> decay_result.decay_score,
             effective_confidence |-> decay_result.effective_confidence,
             last_seen_timestamp |-> last_seen,
             pattern_status |-> decay_result.status]

\* detect_correlation when both clock reads fall on the same instant
DetectCorrelation(cor, N, E, fingerprint, t) ==
  DetectCorrelationAt(cor, N, E, fingerprint, t, t)

\* ---------------------------------------------------------- escalation engine
NoAlert == [escalated |-> FALSE]

\* variant: the thresholds are compared strictly
CalculateSeverityStrict(esc, entity_count) ==
  IF entity_count > esc.critical_threshold THEN "CRITICAL"
  ELSE IF entity_count > esc.high_threshold THEN "HIGH"
  ELSE IF entity_count > esc.medium_threshold THEN "MEDIUM"
  ELSE "NONE"

CalculateSeverity(esc, entity_count) ==
  IF entity_count >= esc.critical_threshold THEN "CRITICAL"
  ELSE IF entity_count >= esc.high_threshold THEN "HIGH"
  ELSE IF entity_count >= esc.medium_threshold THEN "MEDIUM"
  ELSE "NONE"

\* variant: a base score that is not capped at 60
CalculateFraudScoreUncapped(correlation) ==
  LET score == correlation.entity_count * 20
               + ((correlation.effective_confidence * 30) \div 10000)
               - (IF correlation.time_span_seconds > 600 THEN 10 ELSE 0)
  IN  IF score > 100 THEN 100 ELSE IF score < 0 THEN 0 ELSE score

\* variant: a base score that wraps around past 60 instead of stopping there
CalculateFraudScoreWrapped(correlation) ==
  LET score == ((correlation.entity_count * 20) % 61)
               + ((correlation.effective_confidence * 30) \div 10000)
               - (IF correlation.time_span_seconds > 600 THEN 10 ELSE 0)
  IN  IF score > 100 THEN 100 ELSE IF score < 0 THEN 0 ELSE score

\* variant: the score is returned without the final max(0, min(100, score))
CalculateFraudScoreUnclamped(correlation) ==
  (IF correlation.entity_count * 20 < 60 THEN correlation.entity_count * 20 ELSE 60)
  + ((correlation.effective_confidence * 30) \div 10000)
  - (IF correlation.time_span_seconds > 600 THEN 10 ELSE 0)

\* min(n * 20, 60) + int(effective_confidence * 30) - 10 if span > 600
CalculateFraudScore(correlation) ==
  LET base == IF correlation.entity_count * 20 < 60
              THEN correlation.entity_count * 20 ELSE 60
      bonus == (correlation.effective_confidence * 30) \div 10000
      score == base + bonus
               - (IF correlation.time_span_seconds > 600 THEN 10 ELSE 0)
  IN  IF score > 100 THEN 100 ELSE IF score < 0 THEN 0 ELSE score

GetRecommendation(severity) ==
  IF severity = "CRITICAL" THEN "IMMEDIATE_ESCALATION"
  ELSE IF severity = "HIGH" THEN "URGENT_REVIEW"
  ELSE IF severity = "MEDIUM" THEN "PRIORITY_REVIEW"
  ELSE "MONITOR"

Evaluate(esc, correlation, t) ==
  LET severity == CalculateSeverity(esc, correlation.entity_count)
  IN  IF severity = "NONE" THEN NoAlert
      ELSE [escalated |-> TRUE,
            fingerprint |-> correlation.fingerprint,
            severity |-> severity,
            confidence |-> correlation.confidence,
            entity_count |-> correlation.entity_count,
            time_span_seconds |-> correlation.time_span_seconds,
            recommendation |-> GetRecommendation(severity),
            fraud_score |-> CalculateFraudScore(correlation),
            timestamp |-> t,
            base_confidence |-> correlation.base_confidence,
            decay_score |-> correlation.decay_score,
            effective_confidence |-> correlation.effective_confidence,
            last_seen_timestamp |-> correlation.last_seen_timestamp,
            pattern_status |-> correlation.pattern_status,
            time_since_last_seen_seconds |-> t - correlation.last_seen_timestamp]

\* ------------------------------------------------------------ advisory builder
NoAdvisory == [built |-> FALSE]

\* variant: the advisory takes the confidence label as its severity
ConfidenceToSeverityUnmapped(confidence) == confidence

\* mapping.get(confidence, "MEDIUM")
ConfidenceToSeverity(confidence) ==
  IF confidence = "HIGH" THEN "CRITICAL"
  ELSE IF confidence = "MEDIUM" THEN "HIGH"
  ELSE "MEDIUM"

\* alert.fingerprint[:8]; every fingerprint sent here has at most eight
\* characters, which the slice keeps whole
FingerprintShort(fingerprint) == fingerprint

\* _generate_id: "ADV-" + the alert's timestamp formatted by
\* strftime("%Y%m%d-%H%M%S") + "-" + fingerprint[:8].  The format keeps the
\* whole seconds of the timestamp and drops the microseconds; the clock here
\* counts whole seconds, so two alerts of one clock value are two alerts of
\* the same second.
GenerateId(alert) == <<"ADV", alert.timestamp, FingerprintShort(alert.fingerprint)>>

BuildAdvisory(alert, t) ==
  [built |-> TRUE,
   advisory_id |-> GenerateId(alert),
   fingerprint |-> alert.fingerprint,
   severity |-> ConfidenceToSeverity(alert.confidence),
   entity_count |-> alert.entity_count,
   confidence |-> alert.confidence,
   fraud_score |-> alert.fraud_score,
   timestamp |-> t,
   base_confidence |-> alert.base_confidence,
   decay_score |-> alert.decay_score,
   effective_confidence |-> alert.effective_confidence,
   last_seen_timestamp |-> alert.last_seen_timestamp,
   pattern_status |-> alert.pattern_status,
   time_since_last_seen_seconds |-> alert.time_since_last_seen_seconds]

\* ------------------------------------------------------------ graph mutation
\* variant: an add that leaves observation_count as it was
IncrementCountSkipped(c) == c

\* brg_graph.py:89  observation_count += 1
IncrementCount(c) == c + 1

\* add_pattern_observation.  raised = TRUE is the KeyError of line 89 when the
\* node named by the fingerprint is an entity node (it has no
\* observation_count); the attribute writes of lines 82-86 have happened.
AddPatternObservation(N, E, fingerprint, entity_id, severity, timestamp, base_confidence, decay_score, effective_confidence, pattern_status) ==
  LET N1 == IF N[fingerprint].node_type = "absent"
            THEN [N EXCEPT ![fingerprint] =
                   [node_type |-> "pattern", first_seen |-> timestamp,
                    observation_count |-> 0,
                    base_confidence |-> base_confidence,
                    decay_score |-> decay_score,
                    effective_confidence |-> effective_confidence,
                    last_seen_timestamp |-> timestamp,
                    pattern_status |-> pattern_status,
                    last_seen |-> -1]]
            ELSE [N EXCEPT ![fingerprint].base_confidence = base_confidence,
                           ![fingerprint].decay_score = decay_score,
                           ![fingerprint].effective_confidence = effective_confidence,
                           ![fingerprint].last_seen_timestamp = timestamp,
                           ![fingerprint].pattern_status = pattern_status]
  IN  IF N1[fingerprint].observation_count = -1
      THEN [raised |-> TRUE, nodes |-> N1, edges |-> E]
      ELSE
        LET N2 == [N1 EXCEPT ![fingerprint].observation_count = IncrementCount(@),
                             ![fingerprint].last_seen = timestamp]
            N3 == IF N2[entity_id].node_type = "absent"
                  THEN [N2 EXCEPT ![entity_id] = EntityNode]
                  ELSE N2
            edge == [src |-> entity_id, dst |-> fingerprint,
                     key |-> NewEdgeKey(E, entity_id, fingerprint),
                     ts |-> timestamp, severity |-> severity]
        IN  [raised |-> FALSE, nodes |-> N3, edges |-> E \cup {edge}]

\* variant: a prune whose cutoff lies one grid step further in the past
CutoffTimeSlack(t) == t - MaxGraphAgeSeconds - TimeStep

\* prune_expired_edges, first half: the edges older than the cutoff.  The
\* graph's time_window is timedelta(seconds=max_age_seconds), fixed when the
\* graph is built from config['max_graph_age_seconds'] (main.py:80-82); no
\* request changes either, so the config entry is the graph's field.
CutoffTime(t) == t - config.max_graph_age_seconds

ExpiredEdges(E, t) == {e \in E : e.ts < CutoffTime(t)}

\* variant: a prune that removes every node of degree zero, whatever its type
OrphanedNodesAnyType(N, E) ==
  {n \in NodeIds : N[n].node_type # "absent" /\ Degree(E, n) = 0}

\* prune_expired_edges, second half: pattern nodes of degree zero
OrphanedNodes(N, E) ==
  {n \in NodeIds : N[n].node_type = "pattern" /\ Degree(E, n) = 0}

\* advisories[-m:]
LastSlice(seq, m) ==
  LET n == Len(seq)
      start == IF m > 0 THEN (IF m >= n THEN 1 ELSE n - m + 1)
               ELSE (IF 0 - m >= n THEN n + 1 ELSE 0 - m + 1)
  IN  SubSeq(seq, start, n)

\* ---------------------------------------------------------- metrics tracker
\* collections.deque(maxlen=...)
Deque(maxlen) == [items |-> <<>>, maxlen |-> maxlen]

\* deque.append: a full deque drops its oldest item, a deque without maxlen
\* only grows
DequeAppend(d, x) ==
  IF d.maxlen # NoMaxLen /\ Len(d.items) >= d.maxlen
  THEN [d EXCEPT !.items = Append(Tail(@), x)]
  ELSE [d EXCEPT !.items = Append(@, x)]

\* MetricsTracker.__init__
NewTracker ==
  [window_size |-> MetricsWindowSeconds,
   ingestion_latencies |-> Deque(LatencyMaxLen),
   correlation_latencies |-> Deque(LatencyMaxLen),
   fingerprints_ingested |-> Deque(NoMaxLen),
   correlations_detected |-> Deque(NoMaxLen),
   alerts_escalated |-> Deque(NoMaxLen),
   advisories_generated |-> Deque(NoMaxLen),
   entity_fingerprint_counts |-> [e \in EntityIds |-> 0],
   advisory_severity_counts |-> [v \in {"MEDIUM", "HIGH", "CRITICAL"} |-> 0],
   fraud_scores |-> Deque(FraudScoreMaxLen),
   pattern_status_counts |-> [v \in {"ACTIVE", "COOLING", "DORMANT"} |-> 0]]

\* while deque and deque[0] < cutoff: deque.popleft()
RECURSIVE DropOlder(_, _)
DropOlder(items, cutoff) ==
  IF items # <<>> /\ Head(items) < cutoff
  THEN DropOlder(Tail(items), cutoff)
  ELSE items

PruneOldTimestamps(m, t) ==
  LET cutoff == t - m.window_size
  IN  [m EXCEPT !.fingerprints_ingested.items = DropOlder(@, cutoff),
                !.correlations_detected.items = DropOlder(@, cutoff),
                !.alerts_escalated.items = DropOlder(@, cutoff),
                !.advisories_generated.items = DropOlder(@, cutoff)]

RecordIngestion(m, t, entity_id, latency_ms) ==
  PruneOldTimestamps(
    [m EXCEPT !.fingerprints_ingested = DequeAppend(@, t),
              !.ingestion_latencies = DequeAppend(@, latency_ms),
              !.entity_fingerprint_counts[entity_id] = @ + 1], t)

RecordCorrelation(m, t, latency_ms, detected) ==
  PruneOldTimestamps(
    [m EXCEPT !.correlation_latencies = DequeAppend(@, latency_ms),
              !.correlations_detected = IF detected THEN DequeAppend(@, t) ELSE @], t)

RecordEscalation(m, t) ==
  PruneOldTimestamps([m EXCEPT !.alerts_escalated = DequeAppend(@, t)], t)

RecordAdvisory(m, t, severity, fraud_score) ==
  PruneOldTimestamps(
    [m EXCEPT !.advisories_generated = DequeAppend(@, t),
              !.advisory_severity_counts[severity] = @ + 1,
              !.fraud_scores = DequeAppend(@, fraud_score)], t)

UpdatePatternStatusCounts(m, active, cooling, dormant) ==
  [m EXCEPT !.pattern_status_counts =
     [v \in {"ACTIVE", "COOLING", "DORMANT"} |->
        IF v = "ACTIVE" THEN active ELSE IF v = "COOLING" THEN cooling ELSE dormant]]

\* sorted(values)
RECURSIVE SortedValues(_)
SortedValues(values) ==
  IF values = <<>> THEN <<>>
  ELSE LET rest == SortedValues(Tail(values))
           x == Head(values)
           k == Cardinality({i \in 1..Len(rest) : rest[i] <= x})
       IN  SubSeq(rest, 1, k) \o <<x>> \o SubSeq(rest, k + 1, Len(rest))

\* variant: the percentile is read at the last index
PercentileIndexLast(n, percentile) == n - 1

\* int(len(sorted_values) * (percentile / 100.0)), then min(index, len - 1).
\* For percentile 95 and every length up to LatencyMaxLen the float product
\* truncates to the integer quotient of n * 95 by 100.
PercentileIndex(n, percentile) ==
  LET index == (n * percentile) \div 100
  IN  IF index < n - 1 THEN index ELSE n - 1

\* _calculate_percentile; the index is zero-based
CalculatePercentile(values, percentile) ==
  IF values = <<>> THEN 0
  ELSE SortedValues(values)[PercentileIndex(Len(values), percentile) + 1]

\* dict.get(key, default)
DictGet(d, k, default) == IF k \in DOMAIN d THEN d[k] ELSE default

\* brg.get_stats: the pattern nodes counted by their stored status, under the
\* key 'pattern_statuses'
GetStats(N) ==
  [unique_patterns |-> Cardinality({n \in NodeIds : N[n].node_type = "pattern"}),
   total_observations |-> observation_count,
   pattern_statuses |->
     [v \in {"ACTIVE", "COOLING", "DORMANT"} |->
        Cardinality({n \in NodeIds : /\ N[n].node_type = "pattern"
                                     /\ N[n].pattern_status = v})]]

\* main.py:405  status_counts = graph_stats.get('pattern_status', {})
StatusCountsRead(graph_stats) == DictGet(graph_stats, "pattern_status", <<>>)

\* main.py:404-411  the tracker after get_metrics has handed it the counts
WithStatusCounts(m, N) ==
  LET status_counts == StatusCountsRead(GetStats(N))
  IN  UpdatePatternStatusCounts(m, DictGet(status_counts, "ACTIVE", 0),
                                DictGet(status_counts, "COOLING", 0),
                                DictGet(status_counts, "DORMANT", 0))

\* get_summary: the fields of MetricsSummary followed here
GetSummary(m, t) ==
  LET pruned == PruneOldTimestamps(m, t)
  IN  [fingerprints_ingested |-> Len(pruned.fingerprints_ingested.items),
       correlations_detected |-> Len(pruned.correlations_detected.items),
       alerts_escalated |-> Len(pruned.alerts_escalated.items),
       advisories_generated |-> Len(pruned.advisories_generated.items),
       p95_ingestion_latency_ms |->
         CalculatePercentile(pruned.ingestion_latencies.items, ReportedPercentile),
       p95_correlation_latency_ms |->
         CalculatePercentile(pruned.correlation_latencies.items, ReportedPercentile),
       active_patterns |-> DictGet(pruned.pattern_status_counts, "ACTIVE", 0),
       cooling_patterns |-> DictGet(pruned.pattern_status_counts, "COOLING", 0),
       dormant_patterns |-> DictGet(pruned.pattern_status_counts, "DORMANT", 0)]

\* GET /metrics (main.py:381-419): the MetricsSummary a request made now gets
MetricsSnapshot == GetSummary(WithStatusCounts(metrics_tracker, nodes), now)

\* ------------------------------------------------------------- event loop
PrunerTask == NumHandlers + 1

\* variant: a prune that awaits between removing the expired edges and
\* removing the orphaned nodes
SuspensionPointsWithPrune == {"sleep", "prune_orphans"}

\* variant: an ingest handler that awaits between its read and its write
SuspensionPointsWithAdd == {"sleep", "add"}

\* the labels at which a task awaits: asyncio.sleep in the pruner is the only
\* await of the hub's tasks; the ingest handler has none
SuspensionPoints == {"sleep"}

Yield(label, task) == IF label \in SuspensionPoints THEN 0 ELSE task

NoRequest == [entity_id |-> "", fingerprint |-> "", severity |-> "", timestamp |-> -1]

IdleFrame == [pc |-> "idle", fingerprint |-> NoRequest, correlation |-> NoCorrelation]

\* a task at label runs if the loop is running it, or if the loop is free and
\* the task was suspended at label
TaskRuns(task, pc, label) ==
  /\ pc = label
  /\ \/ running = task
     \/ running = 0 /\ label \in SuspensionPoints

\* no component is being called directly
NoProbe == [kind |-> "none"]

\* the configuration the hub is started with here
DefaultConfig ==
  [entity_threshold |-> DefaultEntityThreshold,
   time_window_seconds |-> DefaultTimeWindowSeconds,
   critical_threshold |-> DefaultCriticalThreshold,
   high_threshold |-> DefaultHighThreshold,
   medium_threshold |-> DefaultMediumThreshold,
   max_graph_age_seconds |-> MaxGraphAgeSeconds,
   prune_interval_seconds |-> DefaultPruneIntervalSeconds,
   max_advisories |-> DefaultMaxAdvisories]

\* main.py:60-100  the hub after lifespan start-up under configuration c: the
\* components are built from c and the pruner task sleeps its first interval
Lifespan(c) ==
  /\ now = 0
  /\ nodes = [n \in NodeIds |-> NoNode]
  /\ edges = {}
  /\ observation_count = 0
  /\ advisories = <<>>
  /\ config = c
  /\ correlator = [entity_threshold |-> c.entity_threshold,
                   time_window_seconds |-> c.time_window_seconds]
  /\ escalator = [critical_threshold |-> c.critical_threshold,
                  high_threshold |-> c.high_threshold,
                  medium_threshold |-> c.medium_threshold]
  /\ handlers = [h \in Handlers |-> IdleFrame]
  /\ pruner = [pc |-> "sleep", wake_at |-> c.prune_interval_seconds, removed |-> 0,
               raised |-> FALSE, errors |-> 0]
  /\ running = 0
  /\ appended = <<>>
  /\ pruned_at = -1
  /\ metrics_tracker = NewTracker

\* the hub after lifespan start-up
HubInit == Lifespan(DefaultConfig)

Init ==
  /\ HubInit
  /\ probe = NoProbe

\* variant: the correlator is handed the graph with this ingest's own
\* observation already in it (add before detect)
CorrelatorEdgesWithOwn(fp) ==
  edges \cup {[src |-> fp.entity_id, dst |-> fp.fingerprint,
               key |-> NewEdgeKey(edges, fp.entity_id, fp.fingerprint),
               ts |-> fp.timestamp, severity |-> fp.severity]}

\* the graph the correlator is handed at main.py:210: the stored edges
CorrelatorEdges(fp) == edges

\* main.py:198-214  a POST /ingest carrying one of the given bodies is
\* dispatched to the first free handler task, which runs detect_correlation on
\* the graph as it is
Dispatch(h, bodies) ==
  /\ running = 0
  /\ handlers[h].pc = "idle"
  /\ \A g \in Handlers : g < h => handlers[g].pc # "idle"
  /\ \E fp \in bodies :
       handlers' = [handlers EXCEPT ![h] =
                      [pc |-> "add", fingerprint |-> fp,
                       correlation |->
                         DetectCorrelation(correlator, nodes, CorrelatorEdges(fp),
                                           fp.fingerprint, now)]]
  /\ running' = Yield("add", h)
  /\ UNCHANGED <<now, nodes, edges, observation_count, advisories, config,
                 correlator, escalator, pruner, appended, pruned_at>>
  /\ UNCHANGED <<probe, metrics_tracker>>

\* the RiskFingerprint bodies over the given field values
Bodies(entity_ids, fingerprints, severities, stamps) ==
  [entity_id : entity_ids, fingerprint : fingerprints, severity : severities, timestamp : stamps]

IngestCorrelate(h) ==
  /\ observation_count < MaxIngest
  /\ Dispatch(h, Bodies(EntityIds, Fingerprints, Severities, ClientTimes(now)))

\* a POST /ingest whose severity string is not one of the documented levels:
\* the field is a plain str, so the body passes the model and is dispatched
IngestUnknownSeverity(h) ==
  /\ observation_count < MaxIngest
  /\ Dispatch(h, Bodies(EntityIds, Fingerprints, UnknownSeverities, ClientTimes(now)))

\* main.py:216-240  the decay fields chosen for the graph and the add
AddOf(h) ==
  LET fp == handlers[h].fingerprint
      c == handlers[h].correlation
  IN  IF c.detected
      THEN AddPatternObservation(nodes, edges, fp.fingerprint, fp.entity_id,
             fp.severity, fp.timestamp, c.base_confidence, c.decay_score,
             c.effective_confidence, c.pattern_status)
      ELSE AddPatternObservation(nodes, edges, fp.fingerprint, fp.entity_id,
             fp.severity, fp.timestamp, UncorrelatedBase, UncorrelatedDecay,
             UncorrelatedEffective, "ACTIVE")

\* main.py:242-267  the advisory this ingest builds, if any
AdvisoryOf(h) ==
  LET c == handlers[h].correlation
      alert == IF c.detected THEN Evaluate(escalator, c, now) ELSE NoAlert
  IN  IF alert.escalated THEN BuildAdvisory(alert, now) ELSE NoAdvisory

\* main.py:260-265  append and trim
StoreAdvisory(log, advisory, max_advisories) ==
  LET appendedLog == Append(log, advisory)
  IN  IF Len(appendedLog) > max_advisories
      THEN LastSlice(appendedLog, max_advisories)
      ELSE appendedLog

\* the dict returned by ingest_fingerprint (main.py:275-281); the fingerprints
\* sent are shorter than 16 characters, so fingerprint[:16] keeps them whole
Response(h) ==
  [status |-> "accepted",
   fingerprint |-> handlers[h].fingerprint.fingerprint \o "...",
   entity_id |-> handlers[h].fingerprint.entity_id,
   correlation_detected |-> handlers[h].correlation.detected]

\* main.py:216-281  add the observation, escalate, store the advisory and
\* return; a KeyError in the add ends the handler there (HTTP 500)
IngestCommit(h) ==
  /\ TaskRuns(h, handlers[h].pc, "add")
  /\ LET r == AddOf(h)
         advisory == AdvisoryOf(h)
     IN  /\ nodes' = r.nodes
         /\ edges' = r.edges
         /\ IF r.raised
            THEN UNCHANGED <<observation_count, pruned_at, advisories, appended>>
            ELSE /\ observation_count' = observation_count + 1
                 /\ pruned_at' = -1
                 /\ IF advisory.built
                    THEN /\ advisories' = StoreAdvisory(advisories, advisory,
                                                        config.max_advisories)
                         /\ appended' = Append(appended, advisory)
                    ELSE UNCHANGED <<advisories, appended>>
  /\ handlers' = [handlers EXCEPT ![h] = IdleFrame]
  /\ running' = 0
  /\ UNCHANGED <<now, config, correlator, escalator, pruner>>
  /\ UNCHANGED <<probe, metrics_tracker>>

\* config.py:63  the ordering validate_config demands of the thresholds
ValidThresholds(c) ==
  /\ 1 <= c.medium_threshold
  /\ c.medium_threshold <= c.high_threshold
  /\ c.high_threshold <= c.critical_threshold

\* dict.update / the update_config methods: the keys present overwrite
Updated(d, new_config) ==
  [k \in DOMAIN d |-> IF Has(new_config, k) THEN new_config[k] ELSE d[k]]

\* POST /admin/config/update
UpdateConfig ==
  /\ running = 0
  /\ \E new_config \in ConfigUpdates :
       /\ correlator' = Updated(correlator, new_config)
       /\ escalator' = Updated(escalator, new_config)
       /\ config' = Updated(config, new_config)
       /\ config' # config
  /\ UNCHANGED <<now, nodes, edges, observation_count, advisories, handlers,
                 pruner, running, appended, pruned_at>>
  /\ UNCHANGED <<probe, metrics_tracker>>

\* asyncio.sleep(prune_interval_seconds) is over: the pruner is resumed
PrunerWake ==
  /\ TaskRuns(PrunerTask, pruner.pc, "sleep")
  /\ now >= pruner.wake_at
  /\ pruner' = [pruner EXCEPT !.pc = "prune_edges", !.raised = FALSE]
  /\ running' = Yield("prune_edges", PrunerTask)
  /\ UNCHANGED <<now, nodes, edges, observation_count, advisories, config,
                 correlator, escalator, handlers, appended, pruned_at>>
  /\ UNCHANGED <<probe, metrics_tracker>>

\* brg_graph.py:219-229  remove the expired edges
PruneEdges ==
  /\ TaskRuns(PrunerTask, pruner.pc, "prune_edges")
  /\ edges' = edges \ ExpiredEdges(edges, now)
  /\ pruner' = [pruner EXCEPT !.pc = "prune_orphans",
                              !.removed = Cardinality(ExpiredEdges(edges, now))]
  /\ running' = Yield("prune_orphans", PrunerTask)
  /\ UNCHANGED <<now, nodes, advisories, observation_count, config, correlator,
                 escalator, handlers, appended, pruned_at>>
  /\ UNCHANGED <<probe, metrics_tracker>>

\* variant: the exception leaves the while loop and ends the task
PcAfterErrorUncaught == "done"

\* main.py:56-57  except Exception logs the error inside the while loop, which
\* goes on with the next sleep
PcAfterError == "sleep"

\* asyncio.sleep(delay) compares delay with 0 before it suspends: a delay that
\* is no number raises TypeError there
SleepAccepts(delay) == delay # UnusableInterval

\* main.py:50-57  the pruner frame p goes to label; when that is the top of the
\* loop it calls asyncio.sleep(config['prune_interval_seconds']).  If the call
\* raises, except Exception logs the error and the while loop starts its next
\* iteration ("loop") without the task having been suspended.
SleepCall(p, label) ==
  IF label = "sleep" /\ ~SleepAccepts(config.prune_interval_seconds)
  THEN [p EXCEPT !.pc = "loop", !.errors = @ + 1]
  ELSE [p EXCEPT !.pc = label, !.wake_at = now + config.prune_interval_seconds]

\* brg_graph.py:223-225  prune_expired_edges raises while it collects the
\* expired edges, before it removes any (the comparison of an edge timestamp
\* with the cutoff raises TypeError for a timezone-aware timestamp); raised
\* and errors record it
PruneRaises ==
  /\ TaskRuns(PrunerTask, pruner.pc, "prune_edges")
  /\ pruner' = SleepCall([pruner EXCEPT !.raised = TRUE, !.errors = @ + 1],
                         PcAfterError)
  /\ running' = Yield(pruner'.pc, PrunerTask)
  /\ UNCHANGED <<now, nodes, edges, advisories, observation_count, config,
                 correlator, escalator, handlers, appended, pruned_at>>
  /\ UNCHANGED <<probe, metrics_tracker>>

\* brg_graph.py:231-244  remove the orphaned pattern nodes; the pruner goes
\* back to sleep
PruneOrphans ==
  /\ TaskRuns(PrunerTask, pruner.pc, "prune_orphans")
  /\ nodes' = [n \in NodeIds |->
                 IF n \in OrphanedNodes(nodes, edges) THEN NoNode ELSE nodes[n]]
  /\ pruner' = SleepCall(pruner, "sleep")
  /\ running' = Yield(pruner'.pc, PrunerTask)
  /\ pruned_at' = now
  /\ UNCHANGED <<now, edges, advisories, observation_count, config, correlator,
                 escalator, handlers, appended>>
  /\ UNCHANGED <<probe, metrics_tracker>>

\* the clock advances while the event loop is idle and no timer is due
Tick ==
  /\ running = 0
  /\ now < MaxTick * TimeStep
  /\ pruner.wake_at > now
  /\ now' = now + TimeStep
  /\ UNCHANGED <<nodes, edges, observation_count, advisories, config, correlator,
                 escalator, handlers, pruner, running, appended, pruned_at>>
  /\ UNCHANGED <<probe, metrics_tracker>>

\* ------------------------------------------------------------ introspection
\* GET /stats: hub_state.get_graph_stats reports graph.number_of_edges()
StatsTotalObservations == Cardinality(edges)

\* GET /metrics: brg.get_stats reports brg._observation_count
MetricsTotalObservations == observation_count

\* brg.get_stats: the status counted for a pattern is the stored one
ReportedStatus(f) == nodes[f].pattern_status

\* the hub under its start-up configuration: ingests, the pruner, the clock
Next ==
  \/ \E h \in Handlers : IngestCorrelate(h)
  \/ \E h \in Handlers : IngestCommit(h)
  \/ PrunerWake
  \/ PruneEdges
  \/ PruneOrphans
  \/ Tick

Spec == Init /\ [][Next]_vars

\* the same hub with runtime configuration updates
NextAdmin == Next \/ UpdateConfig

SpecAdmin == Init /\ [][NextAdmin]_vars

\* the hub with a pruner whose iterations may raise.  Time passes and a due
\* timer is served however many requests arrive (strong fairness); a task
\* the event loop runs is run to its next suspension point (weak fairness).
PrunerRunIngest(h) ==
  /\ observation_count < PrunerRunIngests
  /\ Dispatch(h, Bodies(EntityIds, Fingerprints, Severities, ClientTimes(now)))

NextPruner ==
  \/ \E h \in Handlers : PrunerRunIngest(h)
  \/ \E h \in Handlers : IngestCommit(h)
  \/ PrunerWake
  \/ PruneEdges
  \/ PruneRaises
  \/ PruneOrphans
  \/ Tick

SpecPruner ==
  /\ Init
  /\ [][NextPruner]_vars
  /\ SF_vars(Tick)
  /\ SF_vars(PrunerWake)
  /\ WF_vars(PruneEdges)
  /\ WF_vars(PruneOrphans)
  /\ \A h \in Handlers : WF_vars(IngestCommit(h))

\* dicts posted to /admin/config/update that set the prune interval: a number
\* of seconds, and a value that is no number
IntervalUpdates ==
  { [k \in {"prune_interval_seconds"} |-> TimeStep],
    [k \in {"prune_interval_seconds"} |-> UnusableInterval] }

\* main.py:527-555  POST /admin/config/update with a new prune interval: the
\* dict is stored by config.update without any check; the pruner reads it at
\* its next asyncio.sleep
UpdateInterval ==
  /\ running = 0
  /\ \E new_config \in IntervalUpdates :
       /\ correlator' = Updated(correlator, new_config)
       /\ escalator' = Updated(escalator, new_config)
       /\ config' = Updated(config, new_config)
       /\ config' # config
  /\ UNCHANGED <<now, nodes, edges, observation_count, advisories, handlers,
                 pruner, running, appended, pruned_at>>
  /\ UNCHANGED <<probe, metrics_tracker>>

\* main.py:50-57  the next iteration of the while loop calls asyncio.sleep
\* again, which raises again: the task goes round without being suspended
SleepRaisesAgain ==
  /\ TaskRuns(PrunerTask, pruner.pc, "loop")
  /\ pruner.errors < MaxSpins
  /\ pruner' = SleepCall(pruner, "sleep")
  /\ running' = Yield(pruner'.pc, PrunerTask)
  /\ UNCHANGED <<now, nodes, edges, observation_count, advisories, config,
                 correlator, escalator, handlers, appended, pruned_at>>
  /\ UNCHANGED <<probe, metrics_tracker>>

\* the hub with a pruner whose iterations may raise and a prune interval set
\* at run time
NextInterval ==
  \/ NextPruner
  \/ UpdateInterval
  \/ SleepRaisesAgain

SpecInterval == Init /\ [][NextInterval]_vars

\* the scenario's ingests: an entity reports the fingerprint, stamped with the
\* hub's time
ScenarioIngest(h) ==
  /\ observation_count < ScenarioIngests
  /\ Dispatch(h, Bodies(ScenarioEntities, ScenarioFingerprints, Severities, {now}))

\* the clock moves to the scenario's next instant
ScenarioTick ==
  /\ running = 0
  /\ \E t \in ScenarioTimes : t > now
  /\ now' = Min({t \in ScenarioTimes : t > now})
  /\ UNCHANGED <<nodes, edges, observation_count, advisories, config, correlator,
                 escalator, handlers, pruner, running, appended, pruned_at>>
  /\ UNCHANGED <<probe, metrics_tracker>>

\* the hub under its default configuration in the multi-entity scenario.  With
\* max_graph_age_seconds = 3600 (config.py:30) the prunes of these ten
\* minutes find no edge older than the cutoff and change nothing.
NextScenario ==
  \/ \E h \in Handlers : ScenarioIngest(h)
  \/ \E h \in Handlers : IngestCommit(h)
  \/ ScenarioTick

SpecScenario == Init /\ [][NextScenario]_vars

\* config.py:46-77  validate_config: TRUE when no ValueError is raised.  The
\* port check (lines 73-74) is left out with the port, which the hub's
\* components never read.
ValidateConfig(c) ==
  /\ ~(c.entity_threshold < 1)
  /\ ~(c.time_window_seconds < 1)
  /\ ValidThresholds(c)
  /\ ~(c.max_graph_age_seconds < 60)
  /\ ~(c.prune_interval_seconds < 10)

\* configurations an operator may set in the environment: the graph age and
\* the prune interval below, on and above the minimum validate_config asks
\* for, the correlation window at its default
CandidateConfigs ==
  {[DefaultConfig EXCEPT !.max_graph_age_seconds = a, !.prune_interval_seconds = i] :
     a \in {30, 60, DefaultTimeWindowSeconds}, i \in {5, TimeStep, DefaultPruneIntervalSeconds}}

\* main.py:65-67  lifespan loads the configuration and starts only if
\* validate_config accepts it
InitConfigured ==
  /\ \E c \in CandidateConfigs : ValidateConfig(c) /\ Lifespan(c)
  /\ probe = NoProbe

\* the hub started under any accepted configuration
SpecConfigured == InitConfigured /\ [][Next]_vars

\* instants of a run in which a handler's two clock reads may differ: two
\* reports at second 1, an ingest whose first read falls on second 300, when
\* the reports are still inside the window, and the instant of its second read
ClockInstants == {0, 1, DefaultTimeWindowSeconds, DefaultTimeWindowSeconds + MaxReadGap}

\* the clock's instants that a later read of the same handler run may return:
\* t itself or an instant at most MaxReadGap seconds after it
LaterReads(t) == {u \in ClockInstants : u >= t /\ u <= t + MaxReadGap}

\* main.py:198-214  a POST /ingest is dispatched as in Dispatch; the clock
\* moves on while detect_correlation runs, so that its second read of
\* datetime.utcnow() may return a later instant than its first
DispatchAcrossReads(h, bodies) ==
  /\ running = 0
  /\ handlers[h].pc = "idle"
  /\ \A g \in Handlers : g < h => handlers[g].pc # "idle"
  /\ \E fp \in bodies, t_decay \in LaterReads(now) :
       /\ handlers' = [handlers EXCEPT ![h] =
                         [pc |-> "add", fingerprint |-> fp,
                          correlation |->
                            DetectCorrelationAt(correlator, nodes, CorrelatorEdges(fp),
                                                fp.fingerprint, now, t_decay)]]
       /\ now' = t_decay
  /\ running' = Yield("add", h)
  /\ UNCHANGED <<nodes, edges, observation_count, advisories, config,
                 correlator, escalator, pruner, appended, pruned_at>>
  /\ UNCHANGED <<probe, metrics_tracker>>

\* an entity reports the fingerprint, stamped with the hub's time
ClockIngest(h) ==
  /\ observation_count < MaxIngest
  /\ DispatchAcrossReads(h, Bodies(ScenarioEntities, ScenarioFingerprints, Severities, {now}))

\* the clock moves to its next instant while the event loop is idle
ClockTick ==
  /\ running = 0
  /\ \E t \in ClockInstants : t > now
  /\ now' = Min({t \in ClockInstants : t > now})
  /\ UNCHANGED <<nodes, edges, observation_count, advisories, config, correlator,
                 escalator, handlers, pruner, running, appended, pruned_at>>
  /\ UNCHANGED <<probe, metrics_tracker>>

\* the hub under its default configuration with a clock that does not stand
\* still during a handler run; as in the scenario, no prune falls into the run
NextClock ==
  \/ \E h \in Handlers : ClockIngest(h)
  \/ \E h \in Handlers : IngestCommit(h)
  \/ ClockTick

SpecClock == Init /\ [][NextClock]_vars

\* the hub receiving ingests with any severity string
NextIngress == Next \/ \E h \in Handlers : IngestUnknownSeverity(h)

SpecIngress == Init /\ [][NextIngress]_vars

\* ------------------------------------------- the escalation path, called directly
ConfidenceLabels == {"LOW", "MEDIUM", "HIGH"}
DecayScores == {FreshDecay, RecentDecay, AgingDecay, StaleDecay}
\* the effective confidences the correlator can compute, and both ends of [0,1]
EffectiveConfidences ==
  {CalculateEffectiveConfidence(ConfidenceMap(c), d) :
     c \in ConfidenceLabels, d \in DecayScores} \cup {0, 10000}
\* time spans on both sides of the ten minutes of the penalty
SpanValues == {0, 60, 600, 601, 700}

\* models.py:32-45  a CorrelationResult built from these four fields; the decay
\* fields that are not given keep the defaults of the model
CorrelationResult(entity_count, confidence, effective_confidence, time_span_seconds) ==
  [detected |-> TRUE,
   fingerprint |-> "fp_1",
   entity_count |-> entity_count,
   time_span_seconds |-> time_span_seconds,
   confidence |-> confidence,
   base_confidence |-> 0,
   decay_score |-> 10,
   effective_confidence |-> effective_confidence,
   last_seen_timestamp |-> 0,
   pattern_status |-> "ACTIVE"]

CorrelationProbes ==
  {[kind |-> "correlation", pc |-> "new",
    correlation |-> CorrelationResult(n, c, e, s),
    fraud_score |-> -1, previous_score |-> -1,
    alert |-> NoAlert, advisory |-> NoAdvisory] :
     n \in 0..MaxEntityCount, c \in ConfidenceLabels,
     e \in EffectiveConfidences, s \in SpanValues}

InitEscalation ==
  /\ HubInit
  /\ probe \in CorrelationProbes

\* _calculate_fraud_score, evaluate and build_advisory on the correlation
Escalated(p, pc) ==
  LET alert == Evaluate(escalator, p.correlation, now)
  IN  [p EXCEPT !.pc = pc,
                !.fraud_score = CalculateFraudScore(p.correlation),
                !.alert = alert,
                !.advisory = IF alert.escalated THEN BuildAdvisory(alert, now)
                             ELSE NoAdvisory]

EvaluateCorrelation ==
  /\ probe.kind = "correlation"
  /\ probe.pc = "new"
  /\ probe' = Escalated(probe, "evaluated")
  /\ UNCHANGED <<now, hub_vars, metrics_tracker>>

\* the same correlation with more entities is evaluated next
RaiseEntityCount ==
  /\ probe.kind = "correlation"
  /\ probe.pc \in {"evaluated", "raised"}
  /\ \E n \in (probe.correlation.entity_count + 1)..MaxEntityCount :
       probe' = Escalated([probe EXCEPT !.correlation.entity_count = n,
                                        !.previous_score = probe.fraud_score],
                          "raised")
  /\ UNCHANGED <<now, hub_vars, metrics_tracker>>

NextEscalation ==
  \/ EvaluateCorrelation
  \/ RaiseEntityCount

SpecEscalation == InitEscalation /\ [][NextEscalation]_vars

\* ---------------------------------------------- the decay engine, called directly
\* base confidences over [0,1], on both sides of the status thresholds
BaseConfidences ==
  {0, CoolingMin - 1, CoolingMin, BaseLow, ActiveMin - 1, ActiveMin, BaseMedium,
   BaseHigh, 10000}
\* ages on both sides of the bounds of the window table
AgeValues ==
  {0, 60, FreshMaxSeconds - 1, FreshMaxSeconds, FreshMaxSeconds + 1,
   RecentMaxSeconds - 1, RecentMaxSeconds, RecentMaxSeconds + 1,
   AgingMaxSeconds - 1, AgingMaxSeconds, AgingMaxSeconds + 1, 900}
LastSeenValues == {0, 1000}

NoDecayResult == [decay_score |-> -1]

PatternProbes ==
  {[kind |-> "pattern", pc |-> "new", pattern_id |-> "fp_1",
    base_confidence |-> b,
    last_seen_timestamp |-> l,
    current_timestamp |-> l + a,
    decayed |-> NoDecayResult,
    previous |-> NoDecayResult,
    reactivated |-> NoDecayResult] :
     b \in BaseConfidences, l \in LastSeenValues, a \in AgeValues}

InitDecay ==
  /\ HubInit
  /\ probe \in PatternProbes

\* apply_decay(pattern_id, base_confidence, last_seen_timestamp, current_timestamp)
ApplyDecayToPattern ==
  /\ probe.kind = "pattern"
  /\ probe.pc = "new"
  /\ probe' = [probe EXCEPT !.pc = "decayed",
                            !.decayed = ApplyDecay(probe.base_confidence,
                                                   probe.last_seen_timestamp,
                                                   probe.current_timestamp)]
  /\ UNCHANGED <<now, hub_vars, metrics_tracker>>

\* apply_decay once more for the same pattern, base_confidence and
\* last_seen_timestamp at a later current_timestamp; previous keeps the result
\* of the earlier evaluation
ApplyDecayLater ==
  /\ probe.kind = "pattern"
  /\ probe.pc = "decayed"
  /\ \E a \in AgeValues :
       /\ probe.last_seen_timestamp + a > probe.current_timestamp
       /\ probe' = [probe EXCEPT !.current_timestamp = probe.last_seen_timestamp + a,
                                 !.previous = probe.decayed,
                                 !.decayed = ApplyDecay(probe.base_confidence,
                                                        probe.last_seen_timestamp,
                                                        probe.last_seen_timestamp + a)]
  /\ UNCHANGED <<now, hub_vars, metrics_tracker>>

\* reactivate_pattern(pattern_id, base_confidence, current_timestamp): the
\* pattern is seen again at current_timestamp
Reactivate ==
  /\ probe.kind = "pattern"
  /\ probe.pc \in {"new", "decayed"}
  /\ LET r == ReactivatePattern(probe.base_confidence, probe.current_timestamp)
     IN  probe' = [probe EXCEPT !.pc = "reactivated",
                               !.reactivated = r,
                               !.last_seen_timestamp = r.last_seen_timestamp]
  /\ UNCHANGED <<now, hub_vars, metrics_tracker>>

\* apply_decay(pattern_id, base_confidence, t, t) right after reactivate at t
ApplyDecayAfterReactivate ==
  /\ probe.kind = "pattern"
  /\ probe.pc = "reactivated"
  /\ probe' = [probe EXCEPT !.pc = "settled",
                            !.decayed = ApplyDecay(probe.base_confidence,
                                                   probe.reactivated.last_seen_timestamp,
                                                   probe.reactivated.current_timestamp)]
  /\ UNCHANGED <<now, hub_vars, metrics_tracker>>

NextDecay ==
  \/ ApplyDecayToPattern
  \/ ApplyDecayLater
  \/ Reactivate
  \/ ApplyDecayAfterReactivate

SpecDecay == InitDecay /\ [][NextDecay]_vars

\* ------------------------------------------- the percentile, called directly
LatencySamples == {5, 20, 80}
\* lengths around the twentieth sample, where floor(0.95 * n) leaves n - 1
LongLengths == {19, 20, 21, 40}
\* the samples 1 .. n in an order that is not sorted
Shuffled(n) == [i \in 1..n |-> ((i * 13) % (n + 1))]

LatencyDeques ==
  UNION {[1..k -> LatencySamples] : k \in 0..MaxSamples}
    \cup {Shuffled(n) : n \in LongLengths}

InitPercentile ==
  /\ HubInit
  /\ probe \in {[kind |-> "latencies", pc |-> "new", values |-> v, p95 |-> -1] :
                  v \in LatencyDeques}

\* _calculate_percentile(latencies, 95), as get_summary calls it
ReportPercentile ==
  /\ probe.kind = "latencies"
  /\ probe.pc = "new"
  /\ probe' = [probe EXCEPT !.pc = "reported",
                            !.p95 = CalculatePercentile(probe.values,
                                                        ReportedPercentile)]
  /\ UNCHANGED <<now, hub_vars, metrics_tracker>>

\* one more sample is recorded and the percentile is asked for again
RecordSample ==
  /\ probe.kind = "latencies"
  /\ probe.pc = "reported"
  /\ Len(probe.values) < MaxSamples
  /\ \E x \in LatencySamples :
       probe' = [probe EXCEPT !.pc = "new", !.values = Append(@, x), !.p95 = -1]
  /\ UNCHANGED <<now, hub_vars, metrics_tracker>>

NextPercentile ==
  \/ ReportPercentile
  \/ RecordSample

SpecPercentile == InitPercentile /\ [][NextPercentile]_vars

\* --------------------------------------- the metrics tracker over ingest runs
LatencyMs == 5
AdvisedSeverity == "HIGH"
AdvisedFraudScore == 87
\* how a run of the ingest handler ends: the add raised (main.py:231), no
\* correlation, a correlation below the escalation thresholds, an advisory
RunOutcomes == {"raised", "accepted", "correlated", "advised"}

\* main.py:214, 254, 261, 273  the recordings of one run, in the handler's order
RecordRun(m, t, entity_id, outcome) ==
  LET m1 == RecordCorrelation(m, t, LatencyMs, outcome \in {"correlated", "advised"})
      m2 == IF outcome = "advised"
            THEN RecordAdvisory(RecordEscalation(m1, t), t, AdvisedSeverity,
                                AdvisedFraudScore)
            ELSE m1
  IN  IF outcome = "raised" THEN m2 ELSE RecordIngestion(m2, t, entity_id, LatencyMs)

RecordIngestRun ==
  /\ Len(metrics_tracker.correlation_latencies.items) < MaxRuns
  /\ \E entity_id \in EntityIds, outcome \in RunOutcomes :
       metrics_tracker' = RecordRun(metrics_tracker, now, entity_id, outcome)
  /\ UNCHANGED <<now, hub_vars, probe>>

\* GET /metrics: the counts are handed over and get_summary prunes
GetMetrics ==
  /\ metrics_tracker' = PruneOldTimestamps(WithStatusCounts(metrics_tracker, nodes), now)
  /\ UNCHANGED <<now, hub_vars, probe>>

\* time passes, half a measurement window at a time
MetricsTick ==
  /\ now < MaxTick * (MetricsWindowSeconds \div 2)
  /\ now' = now + MetricsWindowSeconds \div 2
  /\ UNCHANGED <<hub_vars, metrics_tracker, probe>>

NextMetrics ==
  \/ RecordIngestRun
  \/ GetMetrics
  \/ MetricsTick

SpecMetrics == Init /\ [][NextMetrics]_vars

\* ------------------------------------------- the entity's hub client
\* (src/entity_b/hub_client.py)  BridgeHubClient runs on the entity's event
\* loop: send_fingerprint is awaited by the entity one call at a time, the
\* flush tasks it creates run beside it; each awaits its POST and the sender
\* its backoff sleep, and a task runs from one await to the next without
\* interruption.  The k-th call sends fingerprint k.
SentFingerprints == 1..MaxSends
FlushTasks == 1..NumFlushTasks
RetryLimits == 0..MaxRetries
\* max_pending: a queue of one, and one that holds every fingerprint of a run
PendingLimits == {1, MaxSends}

\* what the awaited client.post comes back with: status 202, another status,
\* httpx.ConnectError or httpx.TimeoutException, any other exception
PostOutcomes == {"accepted", "rejected", "unreachable", "error"}

IdleSend ==
  [pc |-> "idle", fp |-> 0, attempt |-> 0, posts |-> 0, outcomes |-> {},
   queued |-> 0, returned |-> "none"]

NoFlush ==
  [pc |-> "none", head |-> 0, start |-> <<>>, sent |-> <<>>, broke |-> FALSE,
   left |-> <<>>]

NoRemoval == [fp |-> 0, sent |-> 0]

\* BridgeHubClient.__init__; accepted and removed are history: the POSTs of
\* each fingerprint the hub accepted, and the last popleft with the
\* fingerprint whose acceptance led to it
NewClient(max_retries, max_pending) ==
  [kind |-> "client",
   max_retries |-> max_retries,
   max_pending |-> max_pending,
   pending_fingerprints |-> Deque(max_pending),
   fingerprints_sent |-> 0,
   failed_sends |-> 0,
   retry_sends |-> 0,
   calls |-> 0,
   send |-> IdleSend,
   flush |-> [f \in FlushTasks |-> NoFlush],
   accepted |-> [fp \in SentFingerprints |-> 0],
   removed |-> NoRemoval]

\* _queue_fingerprint: append to the bounded deque; the sender's frame counts
\* the appends of the call
QueueFingerprint(c, fp) ==
  [c EXCEPT !.pending_fingerprints = DequeAppend(@, fp),
            !.send.queued = @ + 1]

\* variant: the sender gives up after its first connection error
RetriesLeftNever(attempt, max_retries) == FALSE

\* hub_client.py:162  attempt < self.max_retries - 1
RetriesLeft(attempt, max_retries) == attempt < max_retries - 1

\* the sender's frame when send_fingerprint returns value
Returned(c, value) == [c EXCEPT !.send.pc = "idle", !.send.returned = value]

\* hub_client.py:132-138  the for loop goes to its next attempt and awaits the
\* POST, or is exhausted and falls through to the return False of line 183
NextAttempt(c) ==
  IF c.send.attempt + 1 < c.max_retries
  THEN [c EXCEPT !.send.pc = "post", !.send.attempt = @ + 1, !.send.posts = @ + 1]
  ELSE Returned(c, "False")

\* hub_client.py:152-153  asyncio.create_task(_flush_pending_fingerprints())
\* if the queue is not empty; the task is followed if one of the
\* NumFlushTasks frames is free
CreateFlushTask(c) ==
  LET free == {f \in FlushTasks : c.flush[f].pc \in {"none", "done"}}
  IN  IF c.pending_fingerprints.items # <<>> /\ free # {}
      THEN [c EXCEPT !.flush[Min(free)] = [NoFlush EXCEPT !.pc = "created"]]
      ELSE c

\* hub_client.py:140-183  send_fingerprint resumes with the outcome of its POST
SendResumes(c, outcome) ==
  LET seen == [c EXCEPT !.send.outcomes = @ \cup {outcome}]
      attempt == c.send.attempt
  IN  IF outcome = "accepted"
      THEN CreateFlushTask(
             Returned([seen EXCEPT !.fingerprints_sent = @ + 1,
                                   !.retry_sends = IF attempt > 0 THEN @ + 1 ELSE @,
                                   !.accepted[c.send.fp] = @ + 1],
                      "True"))
      ELSE IF outcome = "rejected"
      THEN NextAttempt(seen)
      ELSE IF outcome = "unreachable"
      THEN IF RetriesLeft(attempt, c.max_retries)
           THEN [seen EXCEPT !.send.pc = "backoff"]
           ELSE Returned([QueueFingerprint(seen, c.send.fp)
                            EXCEPT !.failed_sends = @ + 1], "False")
      ELSE IF attempt = c.max_retries - 1
           THEN Returned([QueueFingerprint(seen, c.send.fp)
                            EXCEPT !.failed_sends = @ + 1], "False")
           ELSE NextAttempt(seen)

\* hub_client.py:210-231 and 216-231  the flush task f at the top of its while
\* loop: it ends on an empty queue, else reads pending_fingerprints[0] and
\* awaits its POST
FlushLoop(c, f) ==
  IF c.pending_fingerprints.items = <<>>
  THEN [c EXCEPT !.flush[f].pc = "done", !.flush[f].left = <<>>]
  ELSE [c EXCEPT !.flush[f].pc = "post",
                 !.flush[f].head = Head(c.pending_fingerprints.items)]

\* hub_client.py:233-242  the flush task f resumes with the outcome of its
\* POST: on 202 it removes the leftmost fingerprint of the queue (popleft
\* raises IndexError on an empty deque, which the except clause takes as a
\* failure) and goes round; on anything else it breaks
FlushResumes(c, f, outcome) ==
  LET items == c.pending_fingerprints.items
      head == c.flush[f].head
  IN  IF outcome = "accepted" /\ items # <<>>
      THEN FlushLoop([c EXCEPT !.accepted[head] = @ + 1,
                               !.pending_fingerprints.items = Tail(items),
                               !.removed = [fp |-> Head(items), sent |-> head],
                               !.flush[f].sent = Append(@, head)], f)
      ELSE [c EXCEPT !.accepted[head] = IF outcome = "accepted" THEN @ + 1 ELSE @,
                     !.flush[f].pc = "done",
                     !.flush[f].broke = TRUE,
                     !.flush[f].left = items]

\* asyncio runs every ready task before it polls for I/O and timers: a task
\* that was just created gets its first run before a POST or a sleep returns
NoTaskReady == \A f \in FlushTasks : probe.flush[f].pc # "created"

ClientProbes ==
  {NewClient(r, m) : r \in RetryLimits, m \in PendingLimits}

InitClient ==
  /\ HubInit
  /\ probe \in ClientProbes

\* the entity awaits send_fingerprint(k): with max_retries = 0 the loop body
\* never runs and the call returns False; else the first POST is awaited
CallSendFingerprint ==
  /\ probe.kind = "client"
  /\ probe.send.pc = "idle"
  /\ probe.calls < MaxSends
  /\ LET called == [probe EXCEPT !.calls = @ + 1,
                                 !.send = [IdleSend EXCEPT !.fp = probe.calls + 1]]
     IN  probe' = IF probe.max_retries = 0
                  THEN Returned(called, "False")
                  ELSE [called EXCEPT !.send.pc = "post", !.send.posts = 1]
  /\ UNCHANGED <<now, hub_vars, metrics_tracker>>

\* the sender's POST comes back
SendPostReturns ==
  /\ probe.kind = "client"
  /\ probe.send.pc = "post"
  /\ NoTaskReady
  /\ \E outcome \in PostOutcomes : probe' = SendResumes(probe, outcome)
  /\ UNCHANGED <<now, hub_vars, metrics_tracker>>

\* hub_client.py:163-166  the backoff sleep is over: the next attempt's POST
BackoffOver ==
  /\ probe.kind = "client"
  /\ probe.send.pc = "backoff"
  /\ NoTaskReady
  /\ probe' = NextAttempt(probe)
  /\ UNCHANGED <<now, hub_vars, metrics_tracker>>

\* a created flush task gets its first run; start keeps the queue it found
FlushStarts(f) ==
  /\ probe.kind = "client"
  /\ probe.flush[f].pc = "created"
  /\ probe' = FlushLoop([probe EXCEPT !.flush[f].start =
                                        probe.pending_fingerprints.items], f)
  /\ UNCHANGED <<now, hub_vars, metrics_tracker>>

\* a flush task's POST comes back
FlushPostReturns(f) ==
  /\ probe.kind = "client"
  /\ probe.flush[f].pc = "post"
  /\ NoTaskReady
  /\ \E outcome \in PostOutcomes : probe' = FlushResumes(probe, f, outcome)
  /\ UNCHANGED <<now, hub_vars, metrics_tracker>>

NextClient ==
  \/ CallSendFingerprint
  \/ SendPostReturns
  \/ BackoffOver
  \/ \E f \in FlushTasks : FlushStarts(f)
  \/ \E f \in FlushTasks : FlushPostReturns(f)

SpecClient == InitClient /\ [][NextClient]_vars

\* ===================================================================== claims

\* handler h returns from a run in which its observation was added
Committed(h) ==
  /\ handlers[h].pc = "add"
  /\ handlers'[h].pc = "idle"
  /\ observation_count' = observation_count + 1

PatternNodes(N) == {n \in NodeIds : N[n].node_type = "pattern"}

CountOf(N, p) == IF N[p].node_type = "pattern" THEN N[p].observation_count ELSE 0

\* C1: every ingest after which, counting the observation it added, at least
\* entity_threshold distinct entities have reported the fingerprint inside the
\* correlation window answers correlation_detected = true and appends an
\* advisory for that fingerprint during the same ingest.
C1_CorrelatedOnThresholdIngest ==
  [][\A h \in Handlers :
       Committed(h) =>
         LET f == handlers[h].fingerprint.fingerprint
         IN  GetUniqueEntities(nodes', edges', f, correlator.time_window_seconds, now)
               >= correlator.entity_threshold
             => /\ Response(h).correlation_detected
                /\ Len(appended') = Len(appended) + 1
                /\ appended'[Len(appended')].fingerprint = f]_vars

C3_StoredStatusMatchesEffective ==
  \A f \in PatternNodes(nodes) :
    nodes[f].pattern_status = DeterminePatternStatus(nodes[f].effective_confidence)

\* C4: the advisory log holds at most max_advisories entries, and they are the
\* most recently appended ones in insertion order.
C4_AdvisoryLogCapped ==
  /\ Len(advisories) <= config.max_advisories
  /\ Len(advisories) <= Len(appended)
  /\ advisories = SubSeq(appended, Len(appended) - Len(advisories) + 1, Len(appended))

\* C5: after a prune at time T that no add has followed, no
\* recent_observations call, for any fingerprint and window, returns an
\* observation with ts < T - max_age.
C5_NoExpiredObservationAfterPrune ==
  pruned_at # -1 =>
    \A f \in NodeIds, w \in QueryWindows :
      \A o \in GetRecentObservations(nodes, edges, f, w, now) :
        o.ts >= pruned_at - MaxGraphAgeSeconds

\* a prune has removed edges, no add followed, and a query still returns some
C5_Witness ==
  /\ pruned_at # -1
  /\ pruner.pc = "sleep"
  /\ pruner.removed > 0
  /\ \E f \in NodeIds, w \in QueryWindows :
       GetRecentObservations(nodes, edges, f, w, now) # {}

\* C6: at every moment no query (recent_observations with any window, the
\* pattern history, the edge dump) exposes an observation older than max_age.
C6_NoObservationOlderThanMaxAge ==
  /\ \A f \in NodeIds, w \in QueryWindows :
       \A o \in GetRecentObservations(nodes, edges, f, w, now) :
         o.ts >= now - MaxGraphAgeSeconds
  /\ \A e \in edges : e.ts >= now - MaxGraphAgeSeconds

\* C7: between operations, a pattern node is in the graph if and only if at
\* least one observation edge points to it.
C7_PatternNodeIffObserved ==
  running = 0 =>
    \A n \in NodeIds :
      nodes[n].node_type = "pattern" <=> InEdges(edges, n) # {}

\* C8: first_seen <= last_seen in every pattern node, and last_seen never
\* decreases while the node exists.
C8_LastSeenMonotone ==
  [][\A f \in PatternNodes(nodes') :
       /\ nodes'[f].first_seen <= nodes'[f].last_seen
       /\ f \in PatternNodes(nodes) => nodes'[f].last_seen >= nodes[f].last_seen]_vars

\* C9: observation_count of a pattern is at least the number of edges pointing
\* to it, and every add for the pattern strictly increases it.
C9_ObservationCountBoundsEdges ==
  [][/\ \A p \in PatternNodes(nodes') :
          nodes'[p].observation_count >= Cardinality(InEdges(edges', p))
     /\ \A h \in Handlers :
          Committed(h) =>
            CountOf(nodes', handlers[h].fingerprint.fingerprint)
              > CountOf(nodes, handlers[h].fingerprint.fingerprint)]_vars

\* a pattern has lost some of its edges to a prune and kept others
C9_Witness ==
  \E p \in PatternNodes(nodes) :
    /\ InEdges(edges, p) # {}
    /\ nodes[p].observation_count > Cardinality(InEdges(edges, p))

\* C10: while an ingest is between its correlator read and its graph write,
\* no step adds or prunes an edge of its fingerprint or changes its node; the
\* next step that touches them is that ingest's own write.
C10_ReadAndWriteNotInterleaved ==
  [][\A h \in Handlers :
       handlers[h].pc = "add" =>
         LET f == handlers[h].fingerprint.fingerprint
         IN  \/ handlers'[h].pc = "idle"
             \/ /\ handlers'[h] = handlers[h]
                /\ InEdges(edges', f) = InEdges(edges, f)
                /\ nodes'[f] = nodes[f]
                /\ \A g \in Handlers \ {h} :
                     handlers'[g].pc = "add" =>
                       handlers'[g].fingerprint.fingerprint # f]_vars

\* an ingest is between read and write for a fingerprint that has stored
\* observations, at a moment the pruner's timer is due
C10_Witness ==
  \E h \in Handlers :
    /\ handlers[h].pc = "add"
    /\ InEdges(edges, handlers[h].fingerprint.fingerprint) # {}
    /\ pruner.pc = "sleep"
    /\ now >= pruner.wake_at

\* C11: a prune is atomic for ingests and queries: whenever the event loop is
\* free or running an ingest handler, the pruner is asleep (no prune is half
\* done) and every pattern node has at least one edge.
C11_PruneAtomic ==
  running # PrunerTask =>
    /\ pruner.pc = "sleep"
    /\ \A n \in PatternNodes(nodes) : Degree(edges, n) > 0

\* the prune is between its two halves, a pattern node has lost all its edges,
\* and the event loop is held by the pruner
C11_Witness ==
  /\ pruner.pc = "prune_orphans"
  /\ running = PrunerTask
  /\ \E n \in PatternNodes(nodes) : Degree(edges, n) = 0

\* C16: every edge goes from an entity node to a pattern node, whatever the
\* entity_id and fingerprint strings ingested (an entity_id equal to a
\* fingerprint included).
C16_EdgesEntityToPattern ==
  \A e \in edges :
    /\ nodes[e.src].node_type = "entity"
    /\ nodes[e.dst].node_type = "pattern"

\* C17: the total-observations values the hub reports (GET /stats and
\* GET /metrics) never decrease.
C17_TotalObservationsMonotone ==
  [][/\ StatsTotalObservations' >= StatsTotalObservations
     /\ MetricsTotalObservations' >= MetricsTotalObservations]_vars

\* C19: a prune at time now removes exactly the edges with ts < now - max_age
\* and returns their number; it leaves the nodes alone while doing so, then
\* removes the pattern nodes of degree zero and nothing else: every other
\* node, entity nodes without edges included, keeps all its fields, and the
\* edges and the returned number stay as they are.
C19_PruneFrame ==
  [][/\ (pruner.pc = "prune_edges" /\ pruner'.pc = "prune_orphans") =>
          /\ edges' = {e \in edges : ~(e.ts < now - MaxGraphAgeSeconds)}
          /\ pruner'.removed = Cardinality(edges \ edges')
          /\ nodes' = nodes
     /\ (pruner.pc = "prune_orphans" /\ pruner'.pc = "sleep") =>
          /\ edges' = edges
          /\ pruner'.removed = pruner.removed
          /\ \A n \in NodeIds :
               IF nodes[n].node_type = "pattern" /\ Degree(edges, n) = 0
               THEN nodes'[n] = NoNode
               ELSE nodes'[n] = nodes[n]]_vars

\* a prune has removed edges and left behind an entity node without edges and
\* a pattern node that still has some
C19_Witness ==
  /\ pruned_at = now
  /\ pruner.removed > 0
  /\ \E n \in NodeIds : nodes[n].node_type = "entity" /\ Degree(edges, n) = 0
  /\ \E p \in PatternNodes(nodes) : InEdges(edges, p) # {}

\* C20: an ingest after which fewer than entity_threshold distinct entities
\* have reported the fingerprint inside the correlation window answers
\* correlation_detected = false and appends no advisory, however many
\* observations the fingerprint has.
C20_BelowThresholdNoCorrelation ==
  [][\A h \in Handlers :
       Committed(h) =>
         LET f == handlers[h].fingerprint.fingerprint
             recent == {e \in InEdges(edges', f) :
                          e.ts > now - correlator.time_window_seconds}
         IN  Cardinality({e.src : e \in recent}) < correlator.entity_threshold
             => /\ ~Response(h).correlation_detected
                /\ appended' = appended
                /\ advisories' = advisories]_vars

\* one entity has reported a fingerprint several times inside the window and
\* no advisory exists
C20_Witness ==
  \E f \in Fingerprints :
    LET recent == {e \in InEdges(edges, f) :
                     e.ts > now - correlator.time_window_seconds}
    IN  /\ Cardinality(recent) >= 2
        /\ Cardinality({e.src : e \in recent}) = 1
        /\ appended = <<>>

\* C12: a runtime config update whose values violate medium_threshold <=
\* high_threshold <= critical_threshold is rejected as a whole: no step changes
\* the correlator's settings, the escalator's thresholds or the global config
\* into values that violate the ordering.
C12_InvalidUpdateRejected ==
  [][<<config, correlator, escalator>>' # <<config, correlator, escalator>> =>
       /\ ValidThresholds(config')
       /\ ValidThresholds(escalator')]_vars

\* C13: an ingest whose severity is not one of LOW, MEDIUM, HIGH, CRITICAL is
\* rejected: the handler that received it adds no node and no edge, counts no
\* observation and leaves the advisory log as it was.
C13_UnknownSeverityRejected ==
  [][\A h \in Handlers :
       (/\ handlers[h].pc = "add"
        /\ handlers[h].fingerprint.severity \notin ValidSeverities
        /\ handlers'[h].pc = "idle")
       => /\ nodes' = nodes
          /\ edges' = edges
          /\ observation_count' = observation_count
          /\ advisories' = advisories]_vars

\* C14: when entity_a, entity_b and entity_c report one fingerprint at T0,
\* T0 + 90 s and T0 + 170 s, the ingest of entity_c appends an advisory with
\* entity_count 3, confidence HIGH, severity CRITICAL and fraud_score 87.
C14_ThreeEntityScenario ==
  [][\A h \in Handlers :
       (/\ Committed(h)
        /\ handlers[h].fingerprint.entity_id = "entity_c"
        /\ {<<e.src, e.dst, e.ts>> : e \in edges'} =
             {<<"entity_a", "fp_1", 0>>, <<"entity_b", "fp_1", 90>>,
              <<"entity_c", "fp_1", 170>>})
       => /\ Len(appended') = Len(appended) + 1
          /\ appended'[Len(appended')].entity_count = 3
          /\ appended'[Len(appended')].confidence = "HIGH"
          /\ appended'[Len(appended')].severity = "CRITICAL"
          /\ appended'[Len(appended')].fraud_score = 87]_vars

\* C15: a pattern stored with base confidence 0.9 whose last observation is
\* 430 s old is reported by the hub's introspection as COOLING.
C15_StatusFollowsTime ==
  \A f \in PatternNodes(nodes) :
    (/\ nodes[f].base_confidence = BaseHigh
     /\ InEdges(edges, f) # {}
     /\ now - Max({e.ts : e \in InEdges(edges, f)}) = 430)
    => ReportedStatus(f) = "COOLING"

Evaluated == probe.kind = "correlation" /\ probe.pc \in {"evaluated", "raised"}

\* C21: the fraud score of every escalated correlation with entity count n,
\* effective confidence e and time span s is
\* clamp(min(20 n, 60) + round(30 e) - (10 if s > 600 else 0), 0, 100), round
\* being rounding to the nearest integer.
C21_FraudScoreRoundsBonus ==
  (Evaluated /\ probe.alert.escalated) =>
    LET c == probe.correlation
        base == IF 20 * c.entity_count < 60 THEN 20 * c.entity_count ELSE 60
        penalty == IF c.time_span_seconds > 600 THEN 10 ELSE 0
    IN  \E b \in 0..30 :
          \* b is an integer nearest to 30 e (e is in units of 1/10000)
          /\ 10000 * b - 30 * c.effective_confidence <= 5000
          /\ 30 * c.effective_confidence - 10000 * b <= 5000
          /\ LET raw == base + b - penalty
             IN  probe.alert.fraud_score
                   = (IF raw > 100 THEN 100 ELSE IF raw < 0 THEN 0 ELSE raw)

C23_FraudScoreInRange ==
  Evaluated =>
    /\ probe.fraud_score \in 0..100
    /\ probe.alert.escalated => probe.alert.fraud_score \in 0..100

\* a correlation of no entity, effective confidence 0 and a span over ten
\* minutes: the sum before the clamp is -10, the score is 0
C23_Witness ==
  /\ Evaluated
  /\ probe.correlation.entity_count = 0
  /\ probe.correlation.effective_confidence = 0
  /\ probe.correlation.time_span_seconds > 600
  /\ probe.fraud_score = 0

\* C24: of two correlations that differ only in entity_count, the one with
\* the larger entity_count never has the smaller fraud score.
C24_ScoreMonotoneInEntityCount ==
  [][(/\ Evaluated
      /\ Evaluated'
      /\ probe'.correlation.entity_count > probe.correlation.entity_count
      /\ [probe'.correlation EXCEPT !.entity_count = probe.correlation.entity_count]
           = probe.correlation)
     => probe'.fraud_score >= probe.fraud_score]_vars

\* the entity count was raised from below the cap of the base score, and the
\* score went up with it
C24_Witness ==
  /\ probe.kind = "correlation"
  /\ probe.pc = "raised"
  /\ probe.correlation.entity_count = 3
  /\ probe.fraud_score > probe.previous_score
  /\ probe.previous_score >= 0

\* C25: the severity of every advisory built from an alert follows from the
\* alert's confidence label alone: HIGH gives CRITICAL, MEDIUM gives HIGH, LOW
\* gives MEDIUM, whatever the alert's own entity-count severity.
C25_AdvisorySeverityFromConfidence ==
  (Evaluated /\ probe.advisory.built) =>
    /\ probe.alert.confidence = "HIGH" => probe.advisory.severity = "CRITICAL"
    /\ probe.alert.confidence = "MEDIUM" => probe.advisory.severity = "HIGH"
    /\ probe.alert.confidence = "LOW" => probe.advisory.severity = "MEDIUM"

\* an alert of severity CRITICAL (four entities or more) with confidence LOW
\* has an advisory of severity MEDIUM
C25_Witness ==
  /\ Evaluated
  /\ probe.advisory.built
  /\ probe.alert.severity = "CRITICAL"
  /\ probe.alert.confidence = "LOW"
  /\ probe.advisory.severity = "MEDIUM"

\* C26: under the default window table decay_score(last_seen, now) is 1.0 for
\* an age of at most 120 s, 0.8 for an age over 120 s and at most 300 s, 0.5
\* for an age over 300 s and at most 600 s, and 0.2 for an age over 600 s; an
\* age exactly on a bound belongs to the fresher window.  (Decay scores are
\* in tenths.)
C26_DecayWindowTable ==
  (probe.kind = "pattern" /\ probe.pc = "decayed") =>
    LET age == probe.current_timestamp - probe.last_seen_timestamp
        decay == probe.decayed.decay_score
    IN  /\ age <= 120 => decay = 10
        /\ (age > 120 /\ age <= 300) => decay = 8
        /\ (age > 300 /\ age <= 600) => decay = 5
        /\ age > 600 => decay = 2
        /\ probe.decayed.time_since_last_seen_seconds = age

\* a pattern whose age is exactly 300 s has decayed to 0.8
C26_Witness ==
  /\ probe.kind = "pattern"
  /\ probe.pc = "decayed"
  /\ probe.current_timestamp - probe.last_seen_timestamp = 300
  /\ probe.decayed.decay_score = 8

C28_SnapshotCountsPatternStatuses ==
  LET stored(v) == Cardinality({n \in PatternNodes(nodes) : nodes[n].pattern_status = v})
  IN  /\ MetricsSnapshot.active_patterns = stored("ACTIVE")
      /\ MetricsSnapshot.cooling_patterns = stored("COOLING")
      /\ MetricsSnapshot.dormant_patterns = stored("DORMANT")

\* C29: every container the metrics tracker holds (the latency samples, the
\* event timestamps kept for ingestion, correlation, escalation and advisory
\* events, the fraud scores) has a fixed maximum length, which it never
\* exceeds whatever the ingest rate.
C29_ContainersHaveMaximumLength ==
  \A d \in {metrics_tracker.ingestion_latencies,
             metrics_tracker.correlation_latencies,
             metrics_tracker.fingerprints_ingested,
             metrics_tracker.correlations_detected,
             metrics_tracker.alerts_escalated,
             metrics_tracker.advisories_generated,
             metrics_tracker.fraud_scores} :
    /\ d.maxlen # NoMaxLen
    /\ Len(d.items) <= d.maxlen

GetAdvisory(log, advisory_id) ==
  LET hits == {i \in 1..Len(log) : log[i].advisory_id = advisory_id}
  IN  IF hits = {} THEN NoAdvisory ELSE log[Min(hits)]

\* C31: any two distinct advisories in the advisory log carry different
\* advisory ids, so that the lookup by id returns each advisory of the log
\* when asked for its id.
C31_AdvisoryIdsDistinct ==
  \A i, j \in 1..Len(advisories) :
    /\ (i # j => advisories[i].advisory_id # advisories[j].advisory_id)
    /\ GetAdvisory(advisories, advisories[i].advisory_id) = advisories[i]

StatusRank(status) ==
  IF status = "ACTIVE" THEN 2 ELSE IF status = "COOLING" THEN 1 ELSE 0

\* C39: for a fixed base confidence and last_seen, an evaluation at a later
\* time never moves the pattern toward ACTIVE: the decay score and the
\* effective confidence of the later evaluation are not above those of the
\* earlier one, and the status stays or moves on in the order ACTIVE,
\* COOLING, DORMANT.
C39_DecayNeverRecoversWithAge ==
  [][(/\ probe.kind = "pattern"
      /\ probe.pc = "decayed"
      /\ probe'.pc = "decayed"
      /\ probe'.last_seen_timestamp = probe.last_seen_timestamp
      /\ probe'.base_confidence = probe.base_confidence
      /\ probe'.current_timestamp > probe.current_timestamp)
     => /\ probe'.decayed.decay_score <= probe.decayed.decay_score
        /\ probe'.decayed.effective_confidence <= probe.decayed.effective_confidence
        /\ StatusRank(probe'.decayed.status) <= StatusRank(probe.decayed.status)
        /\ probe'.decayed.time_since_last_seen_seconds
             > probe.decayed.time_since_last_seen_seconds]_vars

\* a pattern that was ACTIVE at the earlier evaluation and is DORMANT at the
\* later one
C39_Witness ==
  /\ probe.kind = "pattern"
  /\ probe.pc = "decayed"
  /\ probe.previous.decay_score # -1
  /\ probe.previous.status = "ACTIVE"
  /\ probe.decayed.status = "DORMANT"
  /\ probe.decayed.decay_score < probe.previous.decay_score

\* C37: under every configuration validate_config accepted, a prune removes
\* no observation that is still inside the correlation window, and so leaves
\* the correlation of every fingerprint as it was.
C37_PruneKeepsWindowObservations ==
  [][(pruner.pc = "prune_edges" /\ pruner'.pc = "prune_orphans")
     => /\ \A e \in edges \ edges' : ~(e.ts > now - correlator.time_window_seconds)
        /\ \A f \in Fingerprints :
             DetectCorrelation(correlator, nodes, edges', f, now)
               = DetectCorrelation(correlator, nodes, edges, f, now)]_vars

\* C36: every iteration of the pruner loop, whether it pruned or logged an
\* error, ends with the task suspended in asyncio.sleep and the event loop
\* free for the pending handlers.
C36_IterationEndsSuspended ==
  [][(pruner'.errors > pruner.errors \/ pruner.pc = "prune_orphans")
     => (running' = 0 /\ pruner'.pc = "sleep")]_vars

\* C40: under the default configuration, with ingest timestamps not later
\* than the hub clock, every correlation an ingest produces spans less than
\* the 300 s window, is labelled MEDIUM or HIGH and carries a decay score of
\* 1.0 or 0.8, and no advisory has pattern_status DORMANT.
C40_WindowCorrelationNeverDormant ==
  /\ \A h \in Handlers :
       (handlers[h].pc = "add" /\ handlers[h].correlation.detected)
         => /\ handlers[h].correlation.time_span_seconds < DefaultTimeWindowSeconds
            /\ handlers[h].correlation.confidence \in {"MEDIUM", "HIGH"}
            /\ handlers[h].correlation.decay_score \in {FreshDecay, RecentDecay}
  /\ \A i \in 1..Len(appended) : appended[i].pattern_status # "DORMANT"

C33_FlushInOrderStopsOnFailure ==
  probe.kind = "client" =>
    \A f \in FlushTasks :
      probe.flush[f].pc = "done" =>
        LET t == probe.flush[f]
        IN  /\ \A i, j \in 1..Len(t.sent) : i < j => t.sent[i] < t.sent[j]
            /\ \A i, j \in 1..Len(t.left) : i < j => t.left[i] < t.left[j]
            /\ IF t.broke
               THEN /\ t.left # <<>>
                    /\ Head(t.left) = t.head
                    /\ \A i \in 1..Len(t.start) :
                         \/ \E j \in 1..Len(t.sent) : t.sent[j] = t.start[i]
                         \/ \E j \in 1..Len(t.left) : t.left[j] = t.start[i]
               ELSE /\ t.left = <<>>
                    /\ \A i \in 1..Len(t.start) :
                         \E j \in 1..Len(t.sent) : t.sent[j] = t.start[i]

\* C34: a fingerprint leaves pending_fingerprints only when that same
\* fingerprint was accepted by the hub, and no fingerprint is accepted twice,
\* however many flush tasks run.
C34_RemovedOnlyAfterOwnAcceptance ==
  probe.kind = "client" =>
    /\ probe.removed.fp = probe.removed.sent
    /\ \A fp \in SentFingerprints : probe.accepted[fp] <= 1

\* C35: whenever send_fingerprint returns False, its fingerprint has been
\* placed in pending_fingerprints.
C35_FalseMeansQueued ==
  [][(/\ probe.kind = "client"
      /\ probe'.send # probe.send
      /\ probe'.send.pc = "idle"
      /\ probe'.send.returned = "False")
     => /\ probe'.send.queued >= 1
        /\ \E i \in 1..Len(probe'.pending_fingerprints.items) :
             probe'.pending_fingerprints.items[i] = probe'.send.fp]_vars

====
